---- MODULE Spec2Model ----
(***************************************************************************)
(* Model of the navigation engine of the store layout editor:              *)
(* src/src/lib/pathfinding.ts (grid A* search with clearance inflation,    *)
(* path simplification) and of its collision engine:                       *)
(* src/src/server/api/routers/store.ts (rectangle overlap tests).          *)
(*                                                                         *)
(* Numbers are IEEE 754 doubles, as in the source.  The doubles that occur *)
(* are sums, differences and products of decimals with two places, so a    *)
(* double is held as [c, j]: c is the decimal it stands for, in            *)
(* centimetres (0.4 m is 40, 0.1 m is 10), and j is what the double        *)
(* differs from c / 100 by, counted in units of 2^-59 / 100.  Every        *)
(* operation rounds its exact result to the nearest double, ties to even.  *)
(***************************************************************************)
EXTENDS Integers, Sequences, FiniteSets, TLC

VARIABLES
    pc,            \* findPath: "idle" (not called), "search" (in the while loop),
                   \* "done" (returned); the other functions: "call" (about to be
                   \* called) and then the name of the function that returned
    start,         \* argument start: Point
    end,           \* argument end: Point
    blocks,        \* argument blocks: StoreBlock[]
    startSnapped,  \* local startSnapped
    endSnapped,    \* local endSnapped
    nodes,         \* the PathNode objects allocated so far; a node is named by its index
    openSet,       \* local openSet: PathNode[] (sequence of node indices)
    closedSet,     \* local closedSet: Set<string>
    gScore,        \* local gScore: Map<string, number>
    iterations,    \* local iterations
    result,        \* the PathfindingResult returned (meaningful when pc = "done")
    pathArg,       \* optimizePath: argument path
    optimizedPath, \* optimizePath: the value returned (the hook's optimizedPath)
    targetBlock,   \* collision engine: argument targetBlock (block1 of blocksOverlap)
    allBlocks,     \* collision engine: argument allBlocks
    excludeId,     \* collision engine: argument excludeId
    returned,      \* collision engine: the value returned by the function called
    storeBlocks,   \* useStoreLayout: state blocks
    selectedBlockId,   \* useStoreLayout: state selectedBlockId
    allowOverlap,      \* useStoreLayout: state allowOverlap
    overlappingBlocks, \* useStoreLayout: state overlappingBlocks
    idsGenerated   \* useStoreLayout: how many of the ids generated are in use

\* The variables of one findPath call, of one optimizePath call, of one
\* collision-engine call and of the layout editor.
searchVars == <<start, end, blocks, startSnapped, endSnapped, nodes, openSet,
                closedSet, gScore, iterations, result>>

simplifyVars == <<pathArg, optimizedPath>>

collisionVars == <<targetBlock, allBlocks, excludeId, returned>>

editorVars == <<storeBlocks, selectedBlockId, allowOverlap, overlappingBlocks,
                idsGenerated>>

vars == <<pc, searchVars, simplifyVars, collisionVars, editorVars>>

----------------------------------------------------------------------------
(* The arithmetic of the language: number literals, +, -, *, /, <,          *)
(* Math.abs, Math.round, Number.prototype.toFixed.                          *)

Dbl(c, j) == [c |-> c, j |-> j]

Zero == Dbl(0, 0)

\* 2^n modulo m, and the tables of 2^n and of 2^n modulo 100 for the
\* exponents that occur.
RECURSIVE PowerOfTwoMod(_, _)
PowerOfTwoMod(n, m) == IF n = 0 THEN 1 ELSE (2 * PowerOfTwoMod(n - 1, m)) % m

Pow2Table == [n \in 0..20 |-> PowerOfTwoMod(n, 2097152)]

Pow2(n) == Pow2Table[n]

Pow2Mod100Table == [n \in 0..60 |-> PowerOfTwoMod(n, 100)]

Pow2Mod100(n) == Pow2Mod100Table[n]

\* The binary exponent e of the positive value c / 100 + j units:
\* 2^e <= value < 2^(e+1). A value that stands for a power of two and lies
\* below it has the exponent below.
ExponentOfDecimal(c) ==
    IF c >= 3200 THEN 5 ELSE IF c >= 1600 THEN 4 ELSE IF c >= 800 THEN 3
    ELSE IF c >= 400 THEN 2 ELSE IF c >= 200 THEN 1 ELSE IF c >= 100 THEN 0
    ELSE IF c >= 50 THEN -1 ELSE IF c >= 25 THEN -2 ELSE IF c >= 13 THEN -3
    ELSE IF c >= 7 THEN -4 ELSE IF c >= 4 THEN -5 ELSE IF c >= 2 THEN -6
    ELSE -7

Exponent(c, j) ==
    IF j < 0 /\ c \in {25, 50, 100, 200, 400, 800, 1600, 3200}
    THEN ExponentOfDecimal(c) - 1
    ELSE ExponentOfDecimal(c)

\* Doubles of exponent e are 100 * 2^(e+7) units apart.
Ulp(e) == 100 * Pow2(e + 7)

\* The positive value c / 100 + j units modulo two ulps.
Residue(c, j, e) ==
    (Pow2(e + 8) * ((c * Pow2Mod100(51 - e)) % 100) + j) % (2 * Ulp(e))

\* The value lies r units above a double, which is even or odd; the nearest
\* double is that one or the next, ties to even.
Nearest(c, j, ulp, r, lowerIsEven) ==
    IF r = 0 THEN Dbl(c, j)
    ELSE IF 2 * r < ulp \/ (2 * r = ulp /\ lowerIsEven) THEN Dbl(c, j - r)
    ELSE Dbl(c, j + (ulp - r))

NearestAt(c, j, ulp, vm) == Nearest(c, j, ulp, vm % ulp, vm < ulp)

RoundAt(c, j, e) == NearestAt(c, j, Ulp(e), Residue(c, j, e))

\* The double nearest to the positive value c / 100 + j units.
RoundPos(c, j) == RoundAt(c, j, Exponent(c, j))

Negate(v) == Dbl(-v.c, -v.j)

\* A value that stands for 0 is the difference of two doubles that stand for
\* the same decimal, and that difference is a double.
RoundSigned(c, j) ==
    IF c = 0 THEN Dbl(0, j)
    ELSE IF c > 0 THEN RoundPos(c, j)
    ELSE Negate(RoundPos(-c, -j))

\* The double nearest to c / 100 + j units (c and j are bound, so that each
\* is computed once).
Round(c, j) == CHOOSE d \in { RoundSigned(cc, jj) : cc \in {c}, jj \in {j} } : TRUE

\* The number literal of c centimetres: Lit(40) is the double 0.4.
Lit(c) == Round(c, 0)

\* a + b and a - b.
Add(a, b) == Round(a.c + b.c, a.j + b.j)

Sub(a, b) == Round(a.c - b.c, a.j - b.j)

\* n * v for an integer n.
MulInt(n, v) == Round(n * v.c, n * v.j)

\* v / 2.
Halve(v) == Dbl(v.c \div 2, v.j \div 2)

\* a < b and a <= b.
Less(a, b) == a.c < b.c \/ (a.c = b.c /\ a.j < b.j)

LessEq(a, b) == ~Less(b, a)

\* Math.abs on a double.
MathAbs(v) == IF Less(v, Zero) THEN Negate(v) ELSE v

\* Math.abs on an integer.
Abs(v) == IF v < 0 THEN -v ELSE v

\* The integer nearest to the quotient of the decimals, a half going up.
NearestInteger(v, g) == (2 * v.c + g.c) \div (2 * g.c)

\* The exponent e of the half twoH / 2: 2^e <= |twoH| / 2 < 2^(e+1); and the
\* exponent of the doubles next to the half on the side of 0.
ExponentOfHalf(twoH) ==
    CHOOSE e \in -1..12 : Pow2(e + 1) <= Abs(twoH) /\ Abs(twoH) < Pow2(e + 2)

ExponentBelowHalf(twoH) ==
    IF twoH > 0 /\ twoH = Pow2(ExponentOfHalf(twoH) + 1)
    THEN ExponentOfHalf(twoH) - 1
    ELSE ExponentOfHalf(twoH)

\* v stands for the half h = n0 - 1/2 of g: the quotient is the double h or
\* above exactly when v - h g is at least minus g times half the distance
\* from h to the double below it, and then it rounds to n0.
RoundQuotAtHalf(v, g, n0) ==
    IF 2 * v.j - (2 * n0 - 1) * g.j >= -(g.c * Pow2(ExponentBelowHalf(2 * n0 - 1) + 7))
    THEN n0
    ELSE n0 - 1

\* Math.round(v / g): the integer nearest to the double v / g, a half going up.
\* Off the halves it is the integer nearest to the decimals' quotient.
RoundQuot(v, g) ==
    IF (2 * v.c) % (2 * g.c) # g.c THEN NearestInteger(v, g)
    ELSE RoundQuotAtHalf(v, g, NearestInteger(v, g))

\* Math.round(v / gridSize) * gridSize.
SnapCoord(v, gridSize) == MulInt(RoundQuot(v, gridSize), gridSize)

\* v.toFixed(2): the decimal v stands for; a negative double that stands for 0
\* prints "-0.00" and not "0.00".
ToFixed2(v) == <<v.c, v.c = 0 /\ v.j < 0>>

----------------------------------------------------------------------------
(* Configuration (pathfinding.ts:18-29). *)

PATHFINDING_CLEARANCE == Lit(10)

PATHFINDING_GRID_SIZE == Lit(40)

\* The source's ceiling is 20000; the model runs the same loop under a smaller
\* ceiling so that a search that times out stays explorable.
IterationCeiling == 28

MAX_PATHFINDING_ITERATIONS == IterationCeiling

MSG_START_BLOCKED == "Start point is blocked or too close to obstacles"
MSG_END_BLOCKED == "End point is blocked or too close to obstacles"
MSG_FOUND == "Path found!"
MSG_TIMEOUT == "Pathfinding timeout - layout may be too complex"
MSG_UNREACHABLE == "No path found - destination may be unreachable"

Point(px, py) == [x |-> px, y |-> py]

Block(bx, by, w, h) == [x |-> bx, y |-> by, width |-> w, height |-> h]

\* The point and the block written with decimal literals, in centimetres.
PointLit(cx, cy) == Point(Lit(cx), Lit(cy))

BlockLit(cx, cy, cw, ch) == Block(Lit(cx), Lit(cy), Lit(cw), Lit(ch))

----------------------------------------------------------------------------
(* Grid and collision detection. *)

\* The point test against one block's bounds expanded by the clearance.
InInflated(px, py, block, clearance) ==
    LET minX == Sub(block.x, clearance)
        maxX == Add(Add(block.x, block.width), clearance)
        minY == Sub(block.y, clearance)
        maxY == Add(Add(block.y, block.height), clearance)
    IN  LessEq(minX, px) /\ LessEq(px, maxX) /\ LessEq(minY, py) /\ LessEq(py, maxY)

\* Mutant: the blocks' own rectangles, the clearance forgotten.
isPointBlocked_NoClearance(px, py, bs) ==
    \E i \in 1..Len(bs) : InInflated(px, py, bs[i], Zero)

\* Mutant: the expanded bounds taken as open (> and < for >= and <=).
isPointBlocked_OpenBounds(px, py, bs) ==
    \E i \in 1..Len(bs) :
        /\ Less(Sub(bs[i].x, PATHFINDING_CLEARANCE), px)
        /\ Less(px, Add(Add(bs[i].x, bs[i].width), PATHFINDING_CLEARANCE))
        /\ Less(Sub(bs[i].y, PATHFINDING_CLEARANCE), py)
        /\ Less(py, Add(Add(bs[i].y, bs[i].height), PATHFINDING_CLEARANCE))

isPointBlocked(px, py, bs) ==
    \E i \in 1..Len(bs) : InInflated(px, py, bs[i], PATHFINDING_CLEARANCE)

\* The four candidate neighbours in the source's order: right, left, down, up.
NeighborCandidates(node, gridSize) ==
    << Point(Add(node.x, gridSize), node.y),
       Point(Sub(node.x, gridSize), node.y),
       Point(node.x, Add(node.y, gridSize)),
       Point(node.x, Sub(node.y, gridSize)) >>

getNeighbors(node, bs, gridSize) ==
    SelectSeq(NeighborCandidates(node, gridSize),
              LAMBDA nb : ~isPointBlocked(nb.x, nb.y, bs))

\* Mutant: an inadmissible heuristic, three times the Manhattan distance.
manhattanDistance_Tripled(a, b) ==
    MulInt(3, Add(MathAbs(Sub(a.x, b.x)), MathAbs(Sub(a.y, b.y))))

manhattanDistance(a, b) == Add(MathAbs(Sub(a.x, b.x)), MathAbs(Sub(a.y, b.y)))

RECURSIVE calculatePathDistance(_)
calculatePathDistance(path) ==
    IF Len(path) <= 1 THEN Zero
    ELSE Add(calculatePathDistance(SubSeq(path, 1, Len(path) - 1)),
             manhattanDistance(path[Len(path) - 1], path[Len(path)]))

\* `${x.toFixed(2)},${y.toFixed(2)}`.
pointToKey(p) == <<ToFixed2(p.x), ToFixed2(p.y)>>

\* Walks parent references from the node with index id back to the start
\* (parent 0 is null), prepending each point.
RECURSIVE PathTo(_, _)
PathTo(ns, id) ==
    IF id = 0 THEN <<>>
    ELSE Append(PathTo(ns, ns[id].parent), Point(ns[id].x, ns[id].y))

\* Mutant: the walk stops at the node whose parent is null (while
\* (current.parent)), so the start node is never added.
RECURSIVE PathToSkippingStart(_, _)
PathToSkippingStart(ns, id) ==
    IF ns[id].parent = 0 THEN <<>>
    ELSE Append(PathToSkippingStart(ns, ns[id].parent), Point(ns[id].x, ns[id].y))

reconstructPath_SkipStart(endId) == PathToSkippingStart(nodes, endId)

reconstructPath(endId) == PathTo(nodes, endId)

----------------------------------------------------------------------------
(* Path optimization (pathfinding.ts:285-313). *)

\* dir1.x !== dir2.x || dir1.y !== dir2.y at the interior index i (1-based).
DirectionChanges(p, i) ==
    LET dir1 == [x |-> Sub(p[i].x, p[i - 1].x), y |-> Sub(p[i].y, p[i - 1].y)]
        dir2 == [x |-> Sub(p[i + 1].x, p[i].x), y |-> Sub(p[i + 1].y, p[i].y)]
    IN  dir1.x # dir2.x \/ dir1.y # dir2.y

\* The for loop from index i on: optimized is the array built so far.
RECURSIVE OptimizeFrom(_, _, _)
OptimizeFrom(p, i, optimized) ==
    IF i > Len(p) - 1 THEN optimized
    ELSE OptimizeFrom(p, i + 1,
                      IF DirectionChanges(p, i) THEN Append(optimized, p[i]) ELSE optimized)

\* Mutant: the end point is not pushed after the loop.
optimizePath_NoEndPoint(p) ==
    IF Len(p) <= 2 THEN p
    ELSE OptimizeFrom(p, 2, <<p[1]>>)

optimizePath(p) ==
    IF Len(p) <= 2 THEN p
    ELSE Append(OptimizeFrom(p, 2, <<p[1]>>), p[Len(p)])

----------------------------------------------------------------------------
(* Collision engine (store.ts:208-406). *)

\* A StoreBlock with its id, written with decimal literals in centimetres.
StoreBlockLit(id, cx, cy, cw, ch) ==
    [id |-> id, x |-> Lit(cx), y |-> Lit(cy), width |-> Lit(cw), height |-> Lit(ch)]

\* const tolerance = 0.01 and const margin = 10.
tolerance == Lit(1)

margin == Lit(1000)

\* The value of an optional argument that is not passed.
undefined == "undefined"

\* Mutant: plain rectangle intersection, no tolerance.
blocksOverlap_NoTolerance(block1, block2) ==
    ~ \/ LessEq(Add(block1.x, block1.width), block2.x)
      \/ LessEq(Add(block2.x, block2.width), block1.x)
      \/ LessEq(Add(block1.y, block1.height), block2.y)
      \/ LessEq(Add(block2.y, block2.height), block1.y)

blocksOverlap(block1, block2) ==
    ~ \/ LessEq(Add(block1.x, block1.width), Add(block2.x, tolerance))
      \/ LessEq(Add(block2.x, block2.width), Add(block1.x, tolerance))
      \/ LessEq(Add(block1.y, block1.height), Add(block2.y, tolerance))
      \/ LessEq(Add(block2.y, block2.height), Add(block1.y, tolerance))

\* The first continue of the loop: the block is the target itself or excluded.
Skipped(block, target, exclude) == block.id = exclude \/ block.id = target.id

\* Mutant: the rejection leaves the target's width and height out of its
\* bounding box.
TooFarAwayBy_WithoutSize(block, target, m) ==
    \/ Less(Add(target.x, m), block.x)
    \/ Less(Add(block.x, block.width), Sub(target.x, m))
    \/ Less(Add(target.y, m), block.y)
    \/ Less(Add(block.y, block.height), Sub(target.y, m))

\* The second continue of the loop, for a margin of m: the block lies outside
\* the target's bounding box grown by the margin.
TooFarAwayBy(block, target, m) ==
    LET minX == Sub(target.x, m)
        maxX == Add(Add(target.x, target.width), m)
        minY == Sub(target.y, m)
        maxY == Add(Add(target.y, target.height), m)
    IN  \/ Less(maxX, block.x)
        \/ Less(Add(block.x, block.width), minX)
        \/ Less(maxY, block.y)
        \/ Less(Add(block.y, block.height), minY)

TooFarAway(block, target) == TooFarAwayBy(block, target, margin)

\* checkCollisionOptimized with the constant margin set to m.
checkCollisionWithMargin(target, all, exclude, m) ==
    \E i \in 1..Len(all) :
        /\ ~Skipped(all[i], target, exclude)
        /\ ~TooFarAwayBy(all[i], target, m)
        /\ blocksOverlap(target, all[i])

\* Mutant: only excludeId is skipped, a block with the target's id is tested.
checkCollisionOptimized_NoSelfSkip(target, all, exclude) ==
    \E i \in 1..Len(all) :
        /\ all[i].id # exclude
        /\ ~TooFarAway(all[i], target)
        /\ blocksOverlap(target, all[i])

\* Mutant: the rejection compares the block's left edge with minX instead of
\* maxX.
checkCollisionOptimized_WrongBound(target, all, exclude) ==
    \E i \in 1..Len(all) :
        /\ ~Skipped(all[i], target, exclude)
        /\ ~ \/ Less(Sub(target.x, margin), all[i].x)
             \/ TooFarAway(all[i], target)
        /\ blocksOverlap(target, all[i])

\* The loop returns true at the first block that is neither skipped nor
\* rejected and overlaps the target, and false when there is none.
checkCollisionOptimized(target, all, exclude) ==
    \E i \in 1..Len(all) :
        /\ ~Skipped(all[i], target, exclude)
        /\ ~TooFarAway(all[i], target)
        /\ blocksOverlap(target, all[i])

\* Mutant: only the first block of an overlapping pair is added.
findOverlappingBlocks_FirstOnly(all) ==
    { all[i].id : i \in { i \in 1..Len(all) :
                            \E j \in (i + 1)..Len(all) : blocksOverlap(all[i], all[j]) } }

\* The two loops over the pairs i < j: both ids of an overlapping pair are added.
findOverlappingBlocks(all) ==
    UNION { {all[p[1]].id, all[p[2]].id} :
              p \in { p \in (1..Len(all)) \X (1..Len(all)) :
                        p[1] < p[2] /\ blocksOverlap(all[p[1]], all[p[2]]) } }

\* The value null: it has none of the fields of a rectangle.
null == <<>>

\* Math.max and Math.min of two doubles.
MathMax(a, b) == IF Less(a, b) THEN b ELSE a

MathMin(a, b) == IF Less(b, a) THEN b ELSE a

\* The object getOverlapArea returns, from its four edges.
OverlapRectangle(left, right, top, bottom) ==
    [x |-> left, y |-> top, width |-> Sub(right, left), height |-> Sub(bottom, top)]

\* Mutant: the left edge is the smaller of the two lefts.
getOverlapArea_MinLeft(block1, block2) ==
    IF ~blocksOverlap(block1, block2) THEN null
    ELSE OverlapRectangle(MathMin(block1.x, block2.x),
                          MathMin(Add(block1.x, block1.width), Add(block2.x, block2.width)),
                          MathMax(block1.y, block2.y),
                          MathMin(Add(block1.y, block1.height), Add(block2.y, block2.height)))

getOverlapArea(block1, block2) ==
    IF ~blocksOverlap(block1, block2) THEN null
    ELSE OverlapRectangle(MathMax(block1.x, block2.x),
                          MathMin(Add(block1.x, block1.width), Add(block2.x, block2.width)),
                          MathMax(block1.y, block2.y),
                          MathMin(Add(block1.y, block1.height), Add(block2.y, block2.height)))

\* The minimum width and height of a block: the literal 0.1.
MinimumSize == Lit(10)

REASON_OVERLAP == "Block would overlap with another block"

REASON_SIZE == "Block size must be at least 0.1m"

\* A CollisionValidation; reason is undefined when the object has none.
Validation(isValid, reason) == [isValid |-> isValid, reason |-> reason]

\* Mutant: the size is checked before the collision.
validateBlockPlacement_SizeFirst(block, existingBlocks, exclude) ==
    IF Less(block.width, MinimumSize) \/ Less(block.height, MinimumSize)
    THEN Validation(FALSE, REASON_SIZE)
    ELSE IF checkCollisionOptimized(block, existingBlocks, exclude)
    THEN Validation(FALSE, REASON_OVERLAP)
    ELSE Validation(TRUE, undefined)

validateBlockPlacement(block, existingBlocks, exclude) ==
    IF checkCollisionOptimized(block, existingBlocks, exclude)
    THEN Validation(FALSE, REASON_OVERLAP)
    ELSE IF Less(block.width, MinimumSize) \/ Less(block.height, MinimumSize)
    THEN Validation(FALSE, REASON_SIZE)
    ELSE Validation(TRUE, undefined)

----------------------------------------------------------------------------
(* Array.prototype.sort((a, b) => a.f - b.f): the stable sort by ascending   *)
(* f. The element at index i goes to the position that counts the elements   *)
(* with a smaller f, and those with the same f at a smaller index.           *)

SortRank(ns, open, i) ==
    1 + Cardinality({ j \in 1..Len(open) :
                        \/ Less(ns[open[j]].f, ns[open[i]].f)
                        \/ ns[open[j]].f = ns[open[i]].f /\ j < i })

\* Mutant: an unstable sort, elements of equal f come out in reverse order.
SortByF_TiesReversed(ns, open) ==
    [r \in 1..Len(open) |->
        open[CHOOSE i \in 1..Len(open) :
                r = 1 + Cardinality({ j \in 1..Len(open) :
                                        \/ Less(ns[open[j]].f, ns[open[i]].f)
                                        \/ ns[open[j]].f = ns[open[i]].f /\ j > i })]]

SortByF(ns, open) ==
    [r \in 1..Len(open) |-> open[CHOOSE i \in 1..Len(open) : SortRank(ns, open, i) = r]]

\* openSet.findIndex(node => pointToKey(node) === key): the first index whose
\* node has the key; 0 when there is none (the source's -1).
FindIndex(ns, open, key) ==
    LET hits == { i \in 1..Len(open) : pointToKey(ns[open[i]]) = key }
    IN  IF hits = {} THEN 0 ELSE CHOOSE i \in hits : \A j \in hits : i <= j

----------------------------------------------------------------------------
(* One pass of the neighbour loop (pathfinding.ts:229-262) over the         *)
(* neighbours nbs of the node with index cur; s carries nodes, openSet and  *)
(* gScore.                                                                  *)

\* Mutant: a step costs 1 (a cell count) instead of the grid size.
RelaxOne_UnitCost(s, cur, nb, closed, goal, gridSize) ==
    LET neighborKey == pointToKey(nb)
        tentativeG == Add(s.nodes[cur].g, Lit(100))
    IN  IF neighborKey \in closed THEN s
        ELSE IF neighborKey \in DOMAIN s.gScore /\ ~Less(tentativeG, s.gScore[neighborKey])
        THEN s
        ELSE
            LET h == manhattanDistance(nb, goal)
                neighborNode == [x |-> nb.x, y |-> nb.y, g |-> tentativeG, h |-> h,
                                 f |-> Add(tentativeG, h), parent |-> cur]
                ns2 == Append(s.nodes, neighborNode)
                newId == Len(ns2)
                existingIndex == FindIndex(s.nodes, s.openSet, neighborKey)
            IN  [nodes |-> ns2,
                 gScore |-> [k \in DOMAIN s.gScore \cup {neighborKey} |->
                                IF k = neighborKey THEN tentativeG ELSE s.gScore[k]],
                 openSet |-> IF existingIndex >= 1
                             THEN [s.openSet EXCEPT ![existingIndex] = newId]
                             ELSE Append(s.openSet, newId)]

RelaxOne(s, cur, nb, closed, goal, gridSize) ==
    LET neighborKey == pointToKey(nb)
        tentativeG == Add(s.nodes[cur].g, gridSize)
    IN  IF neighborKey \in closed THEN s
        ELSE IF neighborKey \in DOMAIN s.gScore /\ ~Less(tentativeG, s.gScore[neighborKey])
        THEN s
        ELSE
            LET h == manhattanDistance(nb, goal)
                neighborNode == [x |-> nb.x, y |-> nb.y, g |-> tentativeG, h |-> h,
                                 f |-> Add(tentativeG, h), parent |-> cur]
                ns2 == Append(s.nodes, neighborNode)
                newId == Len(ns2)
                existingIndex == FindIndex(s.nodes, s.openSet, neighborKey)
            IN  [nodes |-> ns2,
                 gScore |-> [k \in DOMAIN s.gScore \cup {neighborKey} |->
                                IF k = neighborKey THEN tentativeG ELSE s.gScore[k]],
                 openSet |-> IF existingIndex >= 1
                             THEN [s.openSet EXCEPT ![existingIndex] = newId]
                             ELSE Append(s.openSet, newId)]

\* The loop runs RelaxOne on each neighbour in turn; t names the value after
\* the first neighbour (bound, so that it is computed once).
RECURSIVE RelaxAll(_, _, _, _, _, _)
RelaxAll(s, cur, nbs, closed, goal, gridSize) ==
    IF nbs = <<>> THEN s
    ELSE CHOOSE r \in { RelaxAll(t, cur, Tail(nbs), closed, goal, gridSize) :
                          t \in {RelaxOne(s, cur, Head(nbs), closed, goal, gridSize)} } : TRUE

\* Mutant: the goal test against the end point as passed, not as snapped.
AtGoal_RawEnd(node, goal, gridSize) ==
    /\ Less(MathAbs(Sub(node.x, end.x)), Halve(gridSize))
    /\ Less(MathAbs(Sub(node.y, end.y)), Halve(gridSize))

\* Mutant: the goal test accepts a node up to one whole cell from the goal.
AtGoal_WithinOneCell(node, goal, gridSize) ==
    /\ LessEq(MathAbs(Sub(node.x, goal.x)), gridSize)
    /\ LessEq(MathAbs(Sub(node.y, goal.y)), gridSize)

\* The goal test of pathfinding.ts:207-210.
AtGoal(node, goal, gridSize) ==
    /\ Less(MathAbs(Sub(node.x, goal.x)), Halve(gridSize))
    /\ Less(MathAbs(Sub(node.y, goal.y)), Halve(gridSize))

\* Mutant: the ceiling compared with <=, one expansion too many.
LoopCondition_OffByOne(open, iters) ==
    Len(open) > 0 /\ iters <= MAX_PATHFINDING_ITERATIONS

\* The condition of the while loop (pathfinding.ts:198).
LoopCondition(open, iters) ==
    Len(open) > 0 /\ iters < MAX_PATHFINDING_ITERATIONS

Failure(msg) == [success |-> FALSE, path |-> <<>>, distance |-> Zero, message |-> msg]

NoResult == Failure("")

----------------------------------------------------------------------------
(* The calls explored: findPath(start, end, blocks) for every start and end *)
(* of Points and every block list of Layouts.                               *)

\* Raw coordinates in centimetres: on the grid, between grid lines, on a rounding half (20,
\* -20) and negative.
RawXs == {-20, 0, 10, 40, 80}
RawYs == {0, 20, 80}

\* A point so far away that a search in the free plane cannot reach it within
\* the ceiling.
FarPoint == PointLit(40 * MAX_PATHFINDING_ITERATIONS, 40 * MAX_PATHFINDING_ITERATIONS)

Points == {PointLit(px, py) : px \in RawXs, py \in RawYs} \cup {FarPoint}

\* Four blocks that enclose the n grid cells (0,0) .. (40(n-1),0).
Corridor(n) ==
    << BlockLit(-5, 35, 40 * (n - 1) + 10, 10),
       BlockLit(-5, -45, 40 * (n - 1) + 10, 10),
       BlockLit(-45, -5, 10, 10),
       BlockLit(40 * n - 5, -5, 10, 10) >>

CorridorLengths ==
    {1, 2} \cup (MAX_PATHFINDING_ITERATIONS - 1 .. MAX_PATHFINDING_ITERATIONS + 1)

\* Corridor(3) cut in two by a pillar on (40,0): (0,0) and (80,0) are each
\* enclosed alone.
SplitCorridor == Corridor(3) \o << BlockLit(35, -5, 10, 10) >>

Layouts ==
    { <<>>,
      << BlockLit(15, -5, 10, 10) >>,       \* 0.1 m square strictly between grid lines
      << BlockLit(35, -5, 10, 10) >>,       \* 0.1 m square on the grid point (40,0)
      << BlockLit(35, -45, 10, 90) >>,      \* a wall over (40,-40), (40,0), (40,40)
      << BlockLit(30, 30, 60, 20), BlockLit(-30, 50, 20, 60) >>,     \* x = 0 is an inflated edge
      \* three pillars on (0,40), (40,0), (40,80): the shortest way from (0,0) to
      \* (80,80) first steps away from the goal
      << BlockLit(-5, 35, 10, 10), BlockLit(35, -5, 10, 10), BlockLit(35, 75, 10, 10) >>,
      SplitCorridor }
    \cup { Corridor(n) : n \in CorridorLengths }

\* Single calls explored beside the product of Points and Layouts.
Scenarios ==
    { \* pillars on (0.4,0) and (1.2,0.4): the cell (0.8,0.4) is rediscovered with
      \* a lower g while it waits in the open set
      [start |-> PointLit(160, 80), end |-> PointLit(-160, 0),
       blocks |-> << BlockLit(35, -5, 10, 10), BlockLit(115, 35, 10, 10) >>],
      \* pillars on (-0.8,0.4) and (-0.4,0.8): the cell (0,0) is reached from the
      \* right at x = 0 and from the left at x = -1.1e-16
      [start |-> PointLit(-80, 80), end |-> PointLit(0, -80),
       blocks |-> << BlockLit(-85, 35, 10, 10), BlockLit(-45, 75, 10, 10) >>],
      \* a 2 m x 2 m block at (5,5), from (0,0) to (10,0)
      [start |-> PointLit(0, 0), end |-> PointLit(1000, 0),
       blocks |-> << BlockLit(500, 500, 200, 200) >>],
      \* a closed corridor one cell longer than the iteration ceiling, walked
      \* from its first cell to its last
      [start |-> PointLit(0, 0), end |-> PointLit(40 * MAX_PATHFINDING_ITERATIONS, 0),
       blocks |-> Corridor(MAX_PATHFINDING_ITERATIONS + 1)] }

Calls ==
    { [start |-> s, end |-> e, blocks |-> bs] : s \in Points, e \in Points, bs \in Layouts }
    \cup Scenarios

\* The values of the variables of a function that is not called.
NoBlock == [id |-> "", x |-> Zero, y |-> Zero, width |-> Zero, height |-> Zero]

NotSimplifying == pathArg = <<>> /\ optimizedPath = <<>>

NotColliding ==
    /\ targetBlock = NoBlock
    /\ allBlocks = <<>>
    /\ excludeId = undefined
    /\ returned = FALSE

\* The value null of a state that holds an id or null.
nullId == "null"

\* The editor's state before anything is placed.
NotEditing ==
    /\ storeBlocks = <<>>
    /\ selectedBlockId = nullId
    /\ allowOverlap = FALSE
    /\ overlappingBlocks = {}
    /\ idsGenerated = 0

TypeOK ==
    /\ pc \in {"idle", "search", "done"}
    /\ [start |-> start, end |-> end, blocks |-> blocks] \in Calls
    /\ iterations \in 0..MAX_PATHFINDING_ITERATIONS
    /\ \A i \in 1..Len(openSet) : openSet[i] \in 1..Len(nodes)
    /\ result.success \in BOOLEAN

Init ==
    /\ pc = "idle"
    /\ \E c \in Calls : start = c.start /\ end = c.end /\ blocks = c.blocks
    /\ startSnapped = PointLit(0, 0)
    /\ endSnapped = PointLit(0, 0)
    /\ nodes = <<>>
    /\ openSet = <<>>
    /\ closedSet = {}
    /\ gScore = <<>>
    /\ iterations = 0
    /\ result = NoResult
    /\ NotSimplifying
    /\ NotColliding
    /\ NotEditing

\* findPath up to the loop (pathfinding.ts:148-196): snap, the two blocked
\* checks, the initial open set.
Begin ==
    /\ pc = "idle"
    /\ LET gridSize == PATHFINDING_GRID_SIZE
           s == Point(SnapCoord(start.x, gridSize), SnapCoord(start.y, gridSize))
           e == Point(SnapCoord(end.x, gridSize), SnapCoord(end.y, gridSize))
           h0 == manhattanDistance(s, e)
           startNode == [x |-> s.x, y |-> s.y, g |-> Zero, h |-> h0, f |-> Add(Zero, h0),
                         parent |-> 0]
       IN  /\ startSnapped' = s
           /\ endSnapped' = e
           /\ IF isPointBlocked(s.x, s.y, blocks)
              THEN /\ result' = Failure(MSG_START_BLOCKED)
                   /\ pc' = "done"
                   /\ UNCHANGED <<nodes, openSet, gScore>>
              ELSE IF isPointBlocked(e.x, e.y, blocks)
              THEN /\ result' = Failure(MSG_END_BLOCKED)
                   /\ pc' = "done"
                   /\ UNCHANGED <<nodes, openSet, gScore>>
              ELSE /\ nodes' = <<startNode>>
                   /\ openSet' = <<1>>
                   /\ gScore' = (pointToKey(s) :> Zero)
                   /\ pc' = "search"
                   /\ UNCHANGED result
    /\ UNCHANGED <<start, end, blocks, closedSet, iterations>>
    /\ UNCHANGED <<simplifyVars, collisionVars, editorVars>>

\* One iteration of the while loop (pathfinding.ts:198-263): sort, shift, the
\* goal test, and otherwise close the node and relax its neighbours.
Iterate ==
    /\ pc = "search"
    /\ LoopCondition(openSet, iterations)
    /\ iterations' = iterations + 1
    /\ \E sorted \in {SortByF(nodes, openSet)} :
         LET gridSize == PATHFINDING_GRID_SIZE
             cur == Head(sorted)
             currentNode == nodes[cur]
             currentKey == pointToKey(currentNode)
         IN  IF AtGoal(currentNode, endSnapped, gridSize)
             THEN /\ result' = [success |-> TRUE,
                                path |-> reconstructPath(cur),
                                distance |-> currentNode.g,
                                message |-> MSG_FOUND]
                  /\ pc' = "done"
                  /\ openSet' = Tail(sorted)
                  /\ UNCHANGED <<nodes, closedSet, gScore>>
             ELSE LET closed2 == closedSet \cup {currentKey}
                      s0 == [nodes |-> nodes, openSet |-> Tail(sorted), gScore |-> gScore]
                  IN  \E nbs \in { getNeighbors(currentNode, blocks, gridSize) } :
                      \E s1 \in { RelaxAll(s0, cur, nbs, closed2, endSnapped, gridSize) } :
                          /\ closedSet' = closed2
                          /\ nodes' = s1.nodes
                          /\ openSet' = s1.openSet
                          /\ gScore' = s1.gScore
                          /\ UNCHANGED <<pc, result>>
    /\ UNCHANGED <<start, end, blocks, startSnapped, endSnapped>>
    /\ UNCHANGED <<simplifyVars, collisionVars, editorVars>>

\* Mutant: the failure return always reports the destination unreachable.
GiveUp_AlwaysUnreachable ==
    /\ pc = "search"
    /\ ~LoopCondition(openSet, iterations)
    /\ result' = Failure(MSG_UNREACHABLE)
    /\ pc' = "done"
    /\ UNCHANGED <<start, end, blocks, startSnapped, endSnapped, nodes, openSet,
                   closedSet, gScore, iterations>>
    /\ UNCHANGED <<simplifyVars, collisionVars, editorVars>>

\* The loop condition fails: the failure return of pathfinding.ts:265-274.
GiveUp ==
    /\ pc = "search"
    /\ ~LoopCondition(openSet, iterations)
    /\ result' = Failure(IF iterations >= MAX_PATHFINDING_ITERATIONS
                         THEN MSG_TIMEOUT ELSE MSG_UNREACHABLE)
    /\ pc' = "done"
    /\ UNCHANGED <<start, end, blocks, startSnapped, endSnapped, nodes, openSet,
                   closedSet, gScore, iterations>>
    /\ UNCHANGED <<simplifyVars, collisionVars, editorVars>>

Next == Begin \/ Iterate \/ GiveUp

Spec == Init /\ [][Next]_vars

\* findPath is synchronous: once called it runs until it returns. The calls
\* explored for termination take their endpoints from LivePoints.
LivePoints == {PointLit(0, 0), PointLit(40, 0), PointLit(80, 80), FarPoint}

LiveInit == Init /\ start \in LivePoints /\ end \in LivePoints

FairSpec == LiveInit /\ [][Next]_vars /\ WF_vars(Next)

----------------------------------------------------------------------------
(* The caller of findPath (the editor hook's findPath): it runs the search  *)
(* and shows the simplified path, or no path when the search failed.        *)

ShowPath ==
    /\ pc = "done"
    /\ IF result.success
       THEN /\ pathArg' = result.path
            /\ optimizedPath' = optimizePath(result.path)
       ELSE /\ pathArg' = <<>>
            /\ optimizedPath' = <<>>
    /\ pc' = "shown"
    /\ UNCHANGED <<searchVars, collisionVars, editorVars>>

HookNext == Begin \/ Iterate \/ GiveUp \/ ShowPath

HookSpec == Init /\ [][HookNext]_vars

----------------------------------------------------------------------------
(* optimizePath called on its own, on every path of PathInputs.             *)

\* The values of findPath's variables when it is not called.
NotSearching ==
    /\ start = PointLit(0, 0) /\ end = PointLit(0, 0) /\ blocks = <<>>
    /\ startSnapped = PointLit(0, 0) /\ endSnapped = PointLit(0, 0)
    /\ nodes = <<>> /\ openSet = <<>> /\ closedSet = {} /\ gScore = <<>>
    /\ iterations = 0
    /\ result = NoResult

MaxPathLen == 4

\* Waypoints one and two grid steps apart, on a line and off it.
PathPoints ==
    { PointLit(0, 0), PointLit(40, 0), PointLit(80, 0), PointLit(120, 0),
      PointLit(0, 40), PointLit(40, 40) }

\* Every path of at most MaxPathLen waypoints, repeated points included.
PathInputs == UNION { [1..n -> PathPoints] : n \in 0..MaxPathLen }

SimplifyInit ==
    /\ pc = "call"
    /\ pathArg \in PathInputs
    /\ optimizedPath = <<>>
    /\ NotSearching
    /\ NotColliding
    /\ NotEditing

CallOptimizePath ==
    /\ pc = "call"
    /\ optimizedPath' = optimizePath(pathArg)
    /\ pc' = "optimizePath"
    /\ UNCHANGED <<pathArg, searchVars, collisionVars, editorVars>>

SimplifySpec == SimplifyInit /\ [][CallOptimizePath]_vars

----------------------------------------------------------------------------
(* The collision engine called on its own: blocksOverlap and getOverlapArea *)
(* on the target and the first block of the list, checkCollisionOptimized,  *)
(* validateBlockPlacement and findOverlappingBlocks on the list.            *)

MaxBlocks == 2

\* The block to place: a 1 m square at the origin, the same square under the
\* id of one of the blocks, and blocks of the minimum size and below it.
Targets ==
    { StoreBlockLit("t", 0, 0, 100, 100), StoreBlockLit("a", 0, 0, 100, 100),
      StoreBlockLit("t", 0, 0, 10, 10),             \* 0.1 m wide and high
      StoreBlockLit("t", 0, 0, 5, 100),             \* too narrow
      StoreBlockLit("t", 0, 0, 100, 9) }            \* too low

\* The blocks of the layout, beside a 1 m square target at the origin.
Obstacles ==
    { StoreBlockLit("a", 100, 0, 100, 100),        \* touching its right edge
      StoreBlockLit("b", 50, 0, 100, 100),         \* over its right half
      StoreBlockLit("c", 99, 0, 100, 100),         \* 1 cm into it
      StoreBlockLit("a", 98, 50, 100, 100),        \* 2 cm into it
      StoreBlockLit("b", 50, 0, 1, 100),           \* 1 cm wide, inside it
      StoreBlockLit("c", 1200, 0, 100, 100),       \* more than 10 m to the right
      StoreBlockLit("b", 0, -1300, 100, 100),      \* more than 10 m below
      StoreBlockLit("t", 10, 10, 100, 100),        \* the target where it was before
      StoreBlockLit("a", -500, -500, 1000, 1000),  \* 10 m square around it
      StoreBlockLit("c", 300, 300, 100, 100),      \* 2 m away
      StoreBlockLit("b", -600, -600, 1300, 1300) } \* 13 m square around it

BlockLists == UNION { [1..n -> Obstacles] : n \in 0..MaxBlocks }

CollisionInit ==
    /\ pc = "call"
    /\ targetBlock \in Targets
    /\ allBlocks \in BlockLists
    /\ excludeId \in {undefined, "a", "b"}
    /\ returned = FALSE
    /\ NotSearching
    /\ NotSimplifying
    /\ NotEditing

CallBlocksOverlap ==
    /\ pc = "call"
    /\ allBlocks # <<>>
    /\ returned' = blocksOverlap(targetBlock, allBlocks[1])
    /\ pc' = "blocksOverlap"
    /\ UNCHANGED <<targetBlock, allBlocks, excludeId, searchVars, simplifyVars,
                   editorVars>>

CallCheckCollisionOptimized ==
    /\ pc = "call"
    /\ returned' = checkCollisionOptimized(targetBlock, allBlocks, excludeId)
    /\ pc' = "checkCollisionOptimized"
    /\ UNCHANGED <<targetBlock, allBlocks, excludeId, searchVars, simplifyVars,
                   editorVars>>

CallFindOverlappingBlocks ==
    /\ pc = "call"
    /\ returned' = findOverlappingBlocks(allBlocks)
    /\ pc' = "findOverlappingBlocks"
    /\ UNCHANGED <<targetBlock, allBlocks, excludeId, searchVars, simplifyVars,
                   editorVars>>

CallGetOverlapArea ==
    /\ pc = "call"
    /\ allBlocks # <<>>
    /\ returned' = getOverlapArea(targetBlock, allBlocks[1])
    /\ pc' = "getOverlapArea"
    /\ UNCHANGED <<targetBlock, allBlocks, excludeId, searchVars, simplifyVars,
                   editorVars>>

CallValidateBlockPlacement ==
    /\ pc = "call"
    /\ returned' = validateBlockPlacement(targetBlock, allBlocks, excludeId)
    /\ pc' = "validateBlockPlacement"
    /\ UNCHANGED <<targetBlock, allBlocks, excludeId, searchVars, simplifyVars,
                   editorVars>>

\* The values the constant margin is set to: none, half a metre, and its own.
Margins == { Zero, Lit(50), margin }

\* checkCollisionOptimized called with the margin set to one of Margins.
CallCheckCollisionWithMargin ==
    /\ pc = "call"
    /\ \E m \in Margins :
          returned' = [margin |-> m,
                       hasCollision |-> checkCollisionWithMargin(targetBlock, allBlocks,
                                                                 excludeId, m)]
    /\ pc' = "checkCollisionWithMargin"
    /\ UNCHANGED <<targetBlock, allBlocks, excludeId, searchVars, simplifyVars,
                   editorVars>>

CollisionNext ==
    \/ CallCheckCollisionWithMargin
    \/ CallBlocksOverlap
    \/ CallCheckCollisionOptimized
    \/ CallFindOverlappingBlocks
    \/ CallGetOverlapArea
    \/ CallValidateBlockPlacement

CollisionSpec == CollisionInit /\ [][CollisionNext]_vars

----------------------------------------------------------------------------
(* The layout editor's state hook, useStoreLayout.  One action is one       *)
(* handler called on the state of the last render, with the state updates   *)
(* it queues applied.                                                       *)

\* GRID_SIZE * 0.1: the editor's snapping grid.
EditorGrid == Lit(10)

\* snapToGrid: Math.round(value / (GRID_SIZE * 0.1)) * (GRID_SIZE * 0.1).
snapToGrid(value) == SnapCoord(value, EditorGrid)

\* BLOCK_CONFIGS: the default width and height of each block type.
BLOCK_CONFIGS ==
    [ wall     |-> [width |-> Lit(100),  height |-> Lit(300)],
      room     |-> [width |-> Lit(400),  height |-> Lit(400)],
      building |-> [width |-> Lit(2000), height |-> Lit(2000)],
      shelf    |-> [width |-> Lit(100),  height |-> Lit(400)],
      counter  |-> [width |-> Lit(200),  height |-> Lit(100)],
      checkout |-> [width |-> Lit(200),  height |-> Lit(150)],
      entrance |-> [width |-> Lit(200),  height |-> Lit(20)] ]

\* At most MaxIds ids are in use over the life of the editor.
MaxIds == 2

\* generateId: an id no block has had so far.
IdNames == <<"id-1", "id-2", "id-3", "id-4">>

generateId(n) == IdNames[n + 1]

\* A block of the layout.
EditorBlock(id, x, y, width, height, type, rotation) ==
    [id |-> id, x |-> x, y |-> y, width |-> width, height |-> height,
     type |-> type, rotation |-> rotation]

\* updateOverlappingBlocks, as created by the render that saw allowOverlap =
\* seen: the value of overlappingBlocks it sets.
updateOverlappingBlocks(currentBlocks, seen) ==
    IF ~seen THEN {} ELSE findOverlappingBlocks(currentBlocks)

\* The value of overlappingBlocks after a handler that leaves the list
\* newBlocks: updated if overlap is allowed.
OverlappingAfter(newBlocks) ==
    IF allowOverlap THEN updateOverlappingBlocks(newBlocks, allowOverlap)
    ELSE overlappingBlocks

\* prevBlocks.map(...) of the three handlers that change one block, where
\* updated[i] is the block the handler proposes in place of prevBlocks[i]: the
\* block with the id becomes its updated block, unless overlap is not allowed
\* and the updated block collides with a block of another id.
MapBlock(prevBlocks, blockId, updated) ==
    [i \in 1..Len(prevBlocks) |->
        IF prevBlocks[i].id # blockId THEN prevBlocks[i]
        ELSE IF ~allowOverlap
                /\ checkCollisionOptimized(updated[i], prevBlocks, blockId)
        THEN prevBlocks[i]
        ELSE updated[i]]

\* Mutant: the updated block is kept whether it collides or not.
MapBlock_NoCheck(prevBlocks, blockId, updated) ==
    [i \in 1..Len(prevBlocks) |->
        IF prevBlocks[i].id # blockId THEN prevBlocks[i]
        ELSE updated[i]]

\* The block rotateSelectedBlock proposes: the rotation advanced by 90, the
\* dimensions swapped when the new rotation is 90 or 270.
Rotated(block) ==
    IF (block.rotation + 90) % 360 \in {90, 270}
    THEN [block EXCEPT !.rotation = (block.rotation + 90) % 360,
                       !.width = block.height, !.height = block.width]
    ELSE [block EXCEPT !.rotation = (block.rotation + 90) % 360]

\* The inputs of the handlers: where a block is dropped (before snapping), the
\* type dropped, where a block is dragged to, the size it is given, and the
\* blocks imported.
DropPoints == { PointLit(2, 0), PointLit(204, -3) }

DropTypes == { "counter" }

DragPoints == { PointLit(0, 0), PointLit(199, 0) }

Sizes == { [width |-> Lit(300), height |-> Lit(100)] }

ImportedBlocks ==
    { <<>>,
      << EditorBlock("dxf", Lit(0), Lit(0), Lit(200), Lit(100), "wall", 0) >>,
      << EditorBlock("dxf", Lit(0), Lit(0), Lit(200), Lit(100), "wall", 0),
         EditorBlock("dxf", Lit(100), Lit(0), Lit(200), Lit(100), "wall", 0) >> }

ImportOffsets == { Zero }

EditorInit ==
    /\ pc = "editor"
    /\ NotEditing
    /\ NotSearching
    /\ NotSimplifying
    /\ NotColliding

SetSelectedBlockId ==
    /\ \E id \in { storeBlocks[i].id : i \in 1..Len(storeBlocks) } \cup {nullId} :
          selectedBlockId' = id
    /\ UNCHANGED <<pc, storeBlocks, allowOverlap, overlappingBlocks, idsGenerated>>
    /\ UNCHANGED <<searchVars, simplifyVars, collisionVars>>

\* toggleOverlapMode calls the updateOverlappingBlocks of its own render,
\* which saw the value of allowOverlap before the toggle.
ToggleOverlapMode ==
    /\ allowOverlap' = ~allowOverlap
    /\ overlappingBlocks' = IF ~allowOverlap
                            THEN updateOverlappingBlocks(storeBlocks, allowOverlap)
                            ELSE {}
    /\ UNCHANGED <<pc, storeBlocks, selectedBlockId, idsGenerated>>
    /\ UNCHANGED <<searchVars, simplifyVars, collisionVars>>

\* importBlocks: the blocks get the offset and new ids, and replace the
\* layout or are appended to it.
ImportBlocks ==
    /\ \E importedBlocks \in ImportedBlocks, replaceExisting \in BOOLEAN,
          offsetX \in ImportOffsets, offsetY \in ImportOffsets :
          /\ idsGenerated + Len(importedBlocks) <= MaxIds
          /\ \E adjustedBlocks \in
                { [i \in 1..Len(importedBlocks) |->
                     [importedBlocks[i] EXCEPT
                        !.x = Add(importedBlocks[i].x, offsetX),
                        !.y = Add(importedBlocks[i].y, offsetY),
                        !.id = generateId(idsGenerated + i - 1)]] } :
                /\ storeBlocks' = IF replaceExisting THEN adjustedBlocks
                                  ELSE storeBlocks \o adjustedBlocks
                /\ selectedBlockId' = IF replaceExisting THEN nullId ELSE selectedBlockId
                /\ overlappingBlocks' =
                      IF allowOverlap
                      THEN updateOverlappingBlocks(
                              IF replaceExisting THEN adjustedBlocks
                              ELSE storeBlocks \o adjustedBlocks, allowOverlap)
                      ELSE overlappingBlocks
                /\ idsGenerated' = idsGenerated + Len(importedBlocks)
    /\ UNCHANGED <<pc, allowOverlap>>
    /\ UNCHANGED <<searchVars, simplifyVars, collisionVars>>

ClearLayout ==
    /\ storeBlocks' = <<>>
    /\ selectedBlockId' = nullId
    /\ overlappingBlocks' = {}
    /\ UNCHANGED <<pc, allowOverlap, idsGenerated>>
    /\ UNCHANGED <<searchVars, simplifyVars, collisionVars>>

\* addBlock: the new block at the snapped position; nothing is placed when
\* overlap is not allowed and the block collides.
AddBlock ==
    /\ idsGenerated < MaxIds
    /\ \E worldPos \in DropPoints, type \in DropTypes :
          \E newBlock \in { EditorBlock(generateId(idsGenerated),
                                        snapToGrid(worldPos.x), snapToGrid(worldPos.y),
                                        BLOCK_CONFIGS[type].width, BLOCK_CONFIGS[type].height,
                                        type, 0) } :
             IF ~allowOverlap /\ checkCollisionOptimized(newBlock, storeBlocks, undefined)
             THEN UNCHANGED <<storeBlocks, overlappingBlocks, idsGenerated>>
             ELSE /\ storeBlocks' = Append(storeBlocks, newBlock)
                  /\ overlappingBlocks' = OverlappingAfter(Append(storeBlocks, newBlock))
                  /\ idsGenerated' = idsGenerated + 1
    /\ UNCHANGED <<pc, selectedBlockId, allowOverlap>>
    /\ UNCHANGED <<searchVars, simplifyVars, collisionVars>>

\* Mutant: the position is changed without the collision check.
UpdateBlockPosition_NoCheck ==
    /\ \E blockId \in { storeBlocks[i].id : i \in 1..Len(storeBlocks) }, to \in DragPoints :
          \E newBlocks \in { MapBlock_NoCheck(storeBlocks, blockId,
                                 [i \in 1..Len(storeBlocks) |->
                                    [storeBlocks[i] EXCEPT !.x = to.x, !.y = to.y]]) } :
             /\ storeBlocks' = newBlocks
             /\ overlappingBlocks' = OverlappingAfter(newBlocks)
    /\ UNCHANGED <<pc, selectedBlockId, allowOverlap, idsGenerated>>
    /\ UNCHANGED <<searchVars, simplifyVars, collisionVars>>

UpdateBlockPosition ==
    /\ \E blockId \in { storeBlocks[i].id : i \in 1..Len(storeBlocks) }, to \in DragPoints :
          \E newBlocks \in { MapBlock(storeBlocks, blockId,
                                 [i \in 1..Len(storeBlocks) |->
                                    [storeBlocks[i] EXCEPT !.x = to.x, !.y = to.y]]) } :
             /\ storeBlocks' = newBlocks
             /\ overlappingBlocks' = OverlappingAfter(newBlocks)
    /\ UNCHANGED <<pc, selectedBlockId, allowOverlap, idsGenerated>>
    /\ UNCHANGED <<searchVars, simplifyVars, collisionVars>>

UpdateBlockSize ==
    /\ \E blockId \in { storeBlocks[i].id : i \in 1..Len(storeBlocks) }, size \in Sizes :
          \E newBlocks \in { MapBlock(storeBlocks, blockId,
                                 [i \in 1..Len(storeBlocks) |->
                                    [storeBlocks[i] EXCEPT !.width = size.width,
                                                           !.height = size.height]]) } :
             /\ storeBlocks' = newBlocks
             /\ overlappingBlocks' = OverlappingAfter(newBlocks)
    /\ UNCHANGED <<pc, selectedBlockId, allowOverlap, idsGenerated>>
    /\ UNCHANGED <<searchVars, simplifyVars, collisionVars>>

RotateSelectedBlock ==
    /\ selectedBlockId # nullId
    /\ \E newBlocks \in { MapBlock(storeBlocks, selectedBlockId,
                                  [i \in 1..Len(storeBlocks) |-> Rotated(storeBlocks[i])]) } :
          /\ storeBlocks' = newBlocks
          /\ overlappingBlocks' = OverlappingAfter(newBlocks)
    /\ UNCHANGED <<pc, selectedBlockId, allowOverlap, idsGenerated>>
    /\ UNCHANGED <<searchVars, simplifyVars, collisionVars>>

DeleteSelected ==
    /\ selectedBlockId # nullId
    /\ \E newBlocks \in { SelectSeq(storeBlocks, LAMBDA block : block.id # selectedBlockId) } :
          /\ storeBlocks' = newBlocks
          /\ overlappingBlocks' = OverlappingAfter(newBlocks)
    /\ selectedBlockId' = nullId
    /\ UNCHANGED <<pc, allowOverlap, idsGenerated>>
    /\ UNCHANGED <<searchVars, simplifyVars, collisionVars>>

\* The handlers that place, change and remove blocks one at a time.
BlockNext ==
    \/ SetSelectedBlockId
    \/ AddBlock
    \/ UpdateBlockPosition
    \/ UpdateBlockSize
    \/ RotateSelectedBlock
    \/ DeleteSelected

\* The editor with overlap mode never switched on and nothing imported.
BlockSpec == EditorInit /\ [][BlockNext]_vars

EditorNext ==
    \/ BlockNext
    \/ ToggleOverlapMode
    \/ ImportBlocks
    \/ ClearLayout

EditorSpec == EditorInit /\ [][EditorNext]_vars

----------------------------------------------------------------------------
(* Vocabulary of the properties, stated on the arguments and the result,    *)
(* independently of the operators the search itself uses.  Lengths and      *)
(* positions are read as the decimals the doubles stand for, in             *)
(* centimetres.                                                             *)

Returned == pc = "done"

Succeeded == pc = "done" /\ result.success

GridCm == 40

ClearanceCm == 10

\* The point p of doubles as a point of centimetres, and a path likewise.
Decimal(p) == Point(p.x.c, p.y.c)

Decimals(path) == [i \in DOMAIN path |-> Decimal(path[i])]

\* p (in centimetres) lies in some block's rectangle grown by the clearance,
\* edges included.
InsideInflatedObstacle(p) ==
    \E i \in 1..Len(blocks) :
        /\ blocks[i].x.c - ClearanceCm <= p.x
        /\ p.x <= blocks[i].x.c + blocks[i].width.c + ClearanceCm
        /\ blocks[i].y.c - ClearanceCm <= p.y
        /\ p.y <= blocks[i].y.c + blocks[i].height.c + ClearanceCm

\* The nearest grid multiple of v centimetres, a half going up: the multiple m
\* with 2m - grid <= 2v < 2m + grid.
NearestGrid(v) ==
    CHOOSE m \in {GridCm * k :
                    k \in -MAX_PATHFINDING_ITERATIONS - 2 .. MAX_PATHFINDING_ITERATIONS + 2} :
        2 * m - GridCm <= 2 * v /\ 2 * v < 2 * m + GridCm

SnappedStart == Point(NearestGrid(start.x.c), NearestGrid(start.y.c))

SnappedEnd == Point(NearestGrid(end.x.c), NearestGrid(end.y.c))

\* b is a's neighbour one grid step away along exactly one axis.
OneGridStep(a, b) ==
    \/ a.x = b.x /\ (b.y - a.y = GridCm \/ a.y - b.y = GridCm)
    \/ a.y = b.y /\ (b.x - a.x = GridCm \/ a.x - b.x = GridCm)

GridNeighbours(c) ==
    { Point(c.x + GridCm, c.y), Point(c.x - GridCm, c.y),
      Point(c.x, c.y + GridCm), Point(c.x, c.y - GridCm) }

\* The sum of |dx| + |dy| over consecutive points of a path of centimetres.
ManhattanLength(p) ==
    LET RECURSIVE Sum(_)
        Sum(i) == IF i >= Len(p) THEN 0
                  ELSE Abs(p[i + 1].x - p[i].x) + Abs(p[i + 1].y - p[i].y) + Sum(i + 1)
    IN  Sum(1)

\* Reference breadth-first search: the number of steps of a shortest
\* 4-directional path from the frontier to goal through cells outside every
\* inflated obstacle, or limit + 1 when there is none of at most limit steps.
RECURSIVE BfsSteps(_, _, _, _, _)
BfsSteps(frontier, visited, goal, d, limit) ==
    IF goal \in frontier THEN d
    ELSE IF frontier = {} \/ d >= limit THEN limit + 1
    ELSE LET next == { n \in UNION { GridNeighbours(c) : c \in frontier } :
                          n \notin visited /\ ~InsideInflatedObstacle(n) }
         IN  BfsSteps(next, visited \cup next, goal, d + 1, limit)

ShortestSteps(from, to, limit) == BfsSteps({from}, {from}, to, 0, limit)

\* The closed segment from a to b (axis-aligned, centimetres) meets the
\* block's rectangle.
SegmentMeetsBlock(a, b, block) ==
    LET loX == IF a.x < b.x THEN a.x ELSE b.x
        hiX == IF a.x < b.x THEN b.x ELSE a.x
        loY == IF a.y < b.y THEN a.y ELSE b.y
        hiY == IF a.y < b.y THEN b.y ELSE a.y
    IN  /\ loX <= block.x.c + block.width.c /\ hiX >= block.x.c
        /\ loY <= block.y.c + block.height.c /\ hiY >= block.y.c

----------------------------------------------------------------------------
\* C1: whenever findPath returns success, the path starts at the snapped start,
\* ends at the snapped end, consecutive waypoints are exactly one grid step
\* apart along one axis, and no waypoint lies inside an obstacle inflated by
\* the clearance (inflated boundary included).
C1_PathIsGridWalkOutsideInflated ==
    Succeeded =>
        LET path == Decimals(result.path)
        IN  /\ Len(path) >= 1
            /\ path[1] = SnappedStart
            /\ path[Len(path)] = SnappedEnd
            /\ \A i \in 1..Len(path) - 1 : OneGridStep(path[i], path[i + 1])
            /\ \A i \in 1..Len(path) : ~InsideInflatedObstacle(path[i])

\* A success whose path walks round an obstacle: longer than the straight
\* Manhattan distance between the snapped endpoints.
C1_Witness ==
    /\ Succeeded
    /\ blocks # <<>>
    /\ Len(result.path) >= 5
    /\ result.distance.c > ManhattanLength(<<SnappedStart, SnappedEnd>>)

\* C2: on success the reported distance is the length of a shortest
\* 4-directional grid path between the snapped endpoints through cells outside
\* every inflated obstacle, as a reference breadth-first search computes it.
C2_DistanceIsShortest ==
    Succeeded =>
        result.distance.c =
            GridCm * ShortestSteps(SnappedStart, SnappedEnd, result.distance.c \div GridCm)

\* A success in which cells had been closed and the obstacles force a detour.
C2_Witness ==
    /\ Succeeded
    /\ Cardinality(closedSet) >= 8
    /\ result.distance.c >= ManhattanLength(<<SnappedStart, SnappedEnd>>) + 2 * GridCm

\* C3 (as claimed): with every obstacle at least 0.1 m wide and high, no segment
\* between consecutive waypoints of a successful path meets an obstacle rectangle.
C3_NoSegmentCrossesObstacle ==
    (Succeeded /\ \A i \in 1..Len(blocks) : blocks[i].width.c >= 10 /\ blocks[i].height.c >= 10)
        => \A i \in 1..Len(result.path) - 1 : \A j \in 1..Len(blocks) :
              ~SegmentMeetsBlock(Decimal(result.path[i]), Decimal(result.path[i + 1]), blocks[j])

\* C4 (as claimed): every successful result has at least 2 waypoints, also when
\* start and end snap to the same grid cell.
C4_AtLeastTwoWaypoints ==
    Succeeded => Len(result.path) >= 2

\* C4 (amended): every successful result has at least 1 waypoint; it has at
\* least 2 exactly when start and end snap to different grid cells, and is the
\* single snapped cell when they snap to the same one.
C4_WaypointCount ==
    Succeeded =>
        /\ Len(result.path) >= 1
        /\ (SnappedStart # SnappedEnd) <=> (Len(result.path) >= 2)
        /\ (SnappedStart = SnappedEnd) => Decimals(result.path) = <<SnappedStart>>

\* A success between two different raw points that snap to the same cell.
C4_Witness ==
    /\ Succeeded
    /\ start # end
    /\ SnappedStart = SnappedEnd
    /\ Len(result.path) = 1

\* C5: when start and end snap to the same grid cell and that cell is outside
\* every inflated obstacle, findPath returns success with at least 1 waypoint
\* and distance 0, on the first expansion, whatever the other obstacles are.
C5_SameCell ==
    (Returned /\ SnappedStart = SnappedEnd /\ ~InsideInflatedObstacle(SnappedStart))
        => /\ result.success
           /\ Len(result.path) >= 1
           /\ result.distance = Zero
           /\ iterations = 1

\* Start and end snap to one free cell that obstacles enclose on all four sides.
C5_Witness ==
    /\ Returned
    /\ SnappedStart = SnappedEnd
    /\ result.success
    /\ \A n \in GridNeighbours(SnappedStart) : InsideInflatedObstacle(n)

C7_BlockedFailsAtOnce ==
    (pc # "idle" /\ (InsideInflatedObstacle(SnappedStart) \/ InsideInflatedObstacle(SnappedEnd)))
        => /\ pc = "done"
           /\ ~result.success
           /\ result.path = <<>>
           /\ iterations = 0
           /\ nodes = <<>> /\ openSet = <<>> /\ closedSet = {}
           /\ result.message = IF InsideInflatedObstacle(SnappedStart)
                               THEN MSG_START_BLOCKED ELSE MSG_END_BLOCKED

\* Both snapped points are blocked, in different cells.
C7_Witness ==
    /\ Returned
    /\ InsideInflatedObstacle(SnappedStart)
    /\ InsideInflatedObstacle(SnappedEnd)
    /\ SnappedStart # SnappedEnd
    /\ result.message = MSG_START_BLOCKED

\* C8 (as claimed): a start or end as passed (before snapping) inside an
\* obstacle's inflated bounds makes findPath fail with the corresponding
\* blocked message.
C8_RawPointBlockedFails ==
    Returned =>
        /\ InsideInflatedObstacle(Decimal(start))
              => ~result.success /\ result.message = MSG_START_BLOCKED
        /\ (~InsideInflatedObstacle(Decimal(start)) /\ InsideInflatedObstacle(Decimal(end)))
              => ~result.success /\ result.message = MSG_END_BLOCKED

\* C9 (as claimed): a search that ends without reaching the goal reports
\* unreachable whenever the open set became empty, for every expansion count up
\* to and including the ceiling, and timeout only when the count reached the
\* ceiling with the open set still non-empty.
C9_FailureMessageMatchesCause ==
    (Returned /\ result.message \in {MSG_TIMEOUT, MSG_UNREACHABLE})
        => /\ (openSet = <<>>) => result.message = MSG_UNREACHABLE
           /\ (result.message = MSG_TIMEOUT)
                 => iterations = MAX_PATHFINDING_ITERATIONS /\ openSet # <<>>

\* C10: every findPath invocation eventually returns, stays returned with the
\* one result, and never expands more nodes than the iteration ceiling.
C10_Terminates ==
    /\ <>[](pc = "done")
    /\ [](iterations <= MAX_PATHFINDING_ITERATIONS)
    /\ [][pc = "done" => (pc' = "done" /\ result' = result)]_vars

\* A search in the free plane for a goal that obstacles enclose, stopped by the
\* ceiling with cells still open.
C10_Witness ==
    /\ Returned
    /\ result.message = MSG_TIMEOUT
    /\ iterations = MAX_PATHFINDING_ITERATIONS
    /\ openSet # <<>>
    /\ \A n \in GridNeighbours(SnappedEnd) : InsideInflatedObstacle(n)

----------------------------------------------------------------------------
(* Vocabulary of the properties of the search loop. A node's index in nodes *)
(* is the order in which it was created, and every node is put into the     *)
(* open set when it is created.                                             *)

\* The step is one pass of the while loop.
IsExpansion == pc = "search" /\ iterations' = iterations + 1

\* The key the node with index id is filed under.
KeyOf(id) == pointToKey(nodes[id])

\* The grid cell of the node, in centimetres.
CellOf(id) == Decimal(nodes[id])

\* The position in openSet of the node the step removes and expands: the one
\* whose key has no node left in the open set after the step.
ExpandedPos ==
    CHOOSE i \in 1..Len(openSet) :
        \A j \in 1..Len(openSet') : pointToKey(nodes'[openSet'[j]]) # KeyOf(openSet[i])

\* The node took the place of an open node of the same key.
IsReplacement(id) == \E k \in 1..(id - 1) : KeyOf(k) = KeyOf(id)

\* C11 (as claimed): the node removed at an expansion has the minimum f of the
\* open set, and among open nodes of equal f the one enqueued first is the one
\* expanded, replacements of an open node included.
C11_MinFFirstEnqueued ==
    [][IsExpansion =>
          \A j \in 1..Len(openSet) :
              \/ Less(nodes[openSet[ExpandedPos]].f, nodes[openSet[j]].f)
              \/ /\ nodes[openSet[ExpandedPos]].f = nodes[openSet[j]].f
                 /\ openSet[ExpandedPos] <= openSet[j]]_vars

\* C11 (amended): the node removed at an expansion has the minimum f of the
\* open set, and among open nodes of equal f it is the one at the earliest
\* position of the array; that is the one enqueued first, except that a node
\* that replaced an open node of its cell stands at that node's position and
\* can be expanded before an equal-f node enqueued earlier.
C11_MinFEarliestPosition ==
    [][IsExpansion =>
          \A j \in 1..Len(openSet) :
              /\ LessEq(nodes[openSet[ExpandedPos]].f, nodes[openSet[j]].f)
              /\ nodes[openSet[ExpandedPos]].f = nodes[openSet[j]].f
                    => /\ ExpandedPos <= j
                       /\ openSet[j] < openSet[ExpandedPos]
                             => IsReplacement(openSet[ExpandedPos])]_vars

\* An open set whose first minimum-f node is a replacement, ahead of an
\* equal-f node that was enqueued before it.
C11_Witness ==
    /\ pc = "search"
    /\ iterations < MAX_PATHFINDING_ITERATIONS
    /\ \E i \in 1..Len(openSet) : \E j \in (i + 1)..Len(openSet) :
          /\ \A k \in 1..Len(openSet) : LessEq(nodes[openSet[i]].f, nodes[openSet[k]].f)
          /\ \A k \in 1..(i - 1) : Less(nodes[openSet[i]].f, nodes[openSet[k]].f)
          /\ nodes[openSet[j]].f = nodes[openSet[i]].f
          /\ openSet[j] < openSet[i]
          /\ IsReplacement(openSet[i])

\* The grid cells of the keys of the closed set.
ClosedCells == { Point(k[1][1], k[2][1]) : k \in closedSet }

\* C12 (as claimed): within one search a grid cell is expanded at most once:
\* no cell of the closed set has a node in the open set, and every expansion
\* removes a node whose cell was not closed before.
C12_ExpandedAtMostOnce ==
    /\ [](\A i \in 1..Len(openSet) : CellOf(openSet[i]) \notin ClosedCells)
    /\ [][IsExpansion => CellOf(openSet[ExpandedPos]) \notin ClosedCells]_vars

\* The call of the scenario: one 2 m x 2 m obstacle at (5,5), from (0,0) to (10,0).
DetourScenario ==
    /\ start = PointLit(0, 0)
    /\ end = PointLit(1000, 0)
    /\ blocks = << BlockLit(500, 500, 200, 200) >>

\* C13 (as claimed): in the scenario findPath returns success with a path that
\* leaves the straight line and has no waypoint on it between x = 5 and x = 7.
C13_DetoursAroundObstacle ==
    (DetourScenario /\ Returned) =>
        /\ result.success
        /\ \E i \in 1..Len(result.path) : result.path[i].y.c # 0
        /\ \A i \in 1..Len(result.path) :
              ~(result.path[i].y.c = 0 /\ result.path[i].x.c >= 500 /\ result.path[i].x.c <= 700)

\* C13 (amended): in the scenario the inflated obstacle (4.9 .. 7.1 on both
\* axes) does not reach the row y = 0, and findPath returns success with the
\* straight path of 26 waypoints (0,0), (0.4,0), .. (10,0), distance 10 m,
\* after 26 expansions; no waypoint is inside the inflated obstacle.
C13_StraightPastObstacle ==
    (DetourScenario /\ Returned) =>
        /\ result.success
        /\ Len(result.path) = 26
        /\ \A i \in 1..Len(result.path) :
              /\ Decimal(result.path[i]) = Point(GridCm * (i - 1), 0)
              /\ ~InsideInflatedObstacle(Decimal(result.path[i]))
        /\ result.distance.c = 1000
        /\ iterations = 26

\* The scenario has returned a path with waypoints between x = 5 and x = 7.
C13_Witness ==
    /\ DetourScenario
    /\ Succeeded
    /\ \E i \in 1..Len(result.path) : result.path[i].x.c >= 500 /\ result.path[i].x.c <= 700

\* The free cells connected to the frontier by grid steps, explored until no
\* new cell is found or cap cells are known.
RECURSIVE Flood(_, _, _)
Flood(frontier, visited, cap) ==
    IF frontier = {} \/ Cardinality(visited) >= cap THEN visited
    ELSE LET next == { n \in UNION { GridNeighbours(c) : c \in frontier } :
                          n \notin visited /\ ~InsideInflatedObstacle(n) }
         IN  Flood(next, visited \cup next, cap)

\* The free cells reachable from c, when they are fewer than cap (otherwise at
\* least cap of them).
Region(c, cap) == Flood({c}, {c}, cap)

\* Obstacles enclose the end and the start lies outside: the snapped start is
\* free, and the snapped end is either inside an inflated obstacle or free in a
\* bounded region that does not hold the snapped start.
EndEnclosedStartOutside ==
    /\ ~InsideInflatedObstacle(SnappedStart)
    /\ \/ InsideInflatedObstacle(SnappedEnd)
       \/ LET r == Region(SnappedEnd, MAX_PATHFINDING_ITERATIONS + 3)
          IN  Cardinality(r) < MAX_PATHFINDING_ITERATIONS + 3 /\ SnappedStart \notin r

\* C14 (as claimed): when obstacles enclose the end and the start lies outside,
\* findPath fails with the end-blocked message if the snapped end is inside
\* inflated bounds and with the unreachable message if it is clear.
C14_EnclosedEndBlockedOrUnreachable ==
    (Returned /\ EndEnclosedStartOutside) =>
        /\ ~result.success
        /\ result.message = IF InsideInflatedObstacle(SnappedEnd)
                            THEN MSG_END_BLOCKED ELSE MSG_UNREACHABLE

\* C14 (amended): when obstacles enclose the end and the start lies outside,
\* findPath fails: with the end-blocked message if the snapped end is inside
\* inflated bounds; otherwise with the unreachable message if the free cells
\* reachable from the snapped start are fewer than the iteration ceiling, and
\* with the timeout message if they are not (as in an unbounded plane).
C14_EnclosedEndFails ==
    (Returned /\ EndEnclosedStartOutside) =>
        /\ ~result.success
        /\ result.path = <<>>
        /\ result.message =
              IF InsideInflatedObstacle(SnappedEnd) THEN MSG_END_BLOCKED
              ELSE IF Cardinality(Region(SnappedStart, MAX_PATHFINDING_ITERATIONS))
                        < MAX_PATHFINDING_ITERATIONS
                   THEN MSG_UNREACHABLE
                   ELSE MSG_TIMEOUT

\* The end is clear and enclosed, the start is in another bounded region, and
\* the search has emptied the open set before the ceiling.
C14_Witness ==
    /\ Returned
    /\ EndEnclosedStartOutside
    /\ ~InsideInflatedObstacle(SnappedEnd)
    /\ result.message = MSG_UNREACHABLE
    /\ iterations < MAX_PATHFINDING_ITERATIONS
    /\ openSet = <<>>

----------------------------------------------------------------------------
(* Vocabulary of the properties of path simplification. *)

\* a is b with some elements left out.
RECURSIVE IsSubsequence(_, _)
IsSubsequence(a, b) ==
    IF a = <<>> THEN TRUE
    ELSE IF b = <<>> THEN FALSE
    ELSE IF Head(a) = Head(b) THEN IsSubsequence(Tail(a), Tail(b))
    ELSE IsSubsequence(a, Tail(b))

\* C15: for every input path optimizePath returns a subsequence of the input
\* with the input's first and last waypoints as its first and last (nothing
\* for the empty path), and its Manhattan length is not greater than the
\* input's.
C15_SubsequenceKeepsEndsNotLonger ==
    pc = "optimizePath" =>
        /\ IsSubsequence(optimizedPath, pathArg)
        /\ pathArg = <<>> => optimizedPath = <<>>
        /\ pathArg # <<>> =>
              /\ optimizedPath # <<>>
              /\ optimizedPath[1] = pathArg[1]
              /\ optimizedPath[Len(optimizedPath)] = pathArg[Len(pathArg)]
        /\ ManhattanLength(Decimals(optimizedPath)) <= ManhattanLength(Decimals(pathArg))

\* A path with a repeated point and steps of two sizes, made shorter.
C15_Witness ==
    /\ pc = "optimizePath"
    /\ Len(optimizedPath) < Len(pathArg)
    /\ \E i \in 1..Len(pathArg) - 1 : pathArg[i] = pathArg[i + 1]
    /\ \E i \in 1..Len(pathArg) - 1 :
          Abs(pathArg[i + 1].x.c - pathArg[i].x.c) = 2 * GridCm

\* The step from a to b as a unit direction (its sign on each axis).
Heading(a, b) ==
    LET Sign(v) == IF v > 0 THEN 1 ELSE IF v < 0 THEN -1 ELSE 0
    IN  <<Sign(b.x.c - a.x.c), Sign(b.y.c - a.y.c)>>

\* The interior indices of p at which the heading changes.
Turns(p) == { i \in 2..(Len(p) - 1) : Heading(p[i - 1], p[i]) # Heading(p[i], p[i + 1]) }

\* The waypoints of p at the indices of K, in order.
Pick(p, K) ==
    [r \in 1..Cardinality(K) |-> p[CHOOSE i \in K : Cardinality({j \in K : j < i}) = r - 1]]

\* C16 (as claimed): for every path findPath produces, optimizePath returns the
\* first waypoint, the waypoints at which the step direction changes and the
\* last waypoint, in order: the output has no interior waypoint on a straight
\* run, and its Manhattan length is that of the input.
C16_KeepsExactlyTheTurns ==
    (pc = "shown" /\ result.success) =>
        /\ pathArg = result.path
        /\ optimizedPath = Pick(pathArg, {1, Len(pathArg)} \cup Turns(pathArg))
        /\ Turns(optimizedPath) = 2..(Len(optimizedPath) - 1)
        /\ ManhattanLength(Decimals(optimizedPath)) = ManhattanLength(Decimals(pathArg))

----------------------------------------------------------------------------
(* Vocabulary of the properties of the collision engine: rectangles read    *)
(* in centimetres.                                                          *)

ToleranceCm == 1

MarginCm == 1000

Min(a, b) == IF a < b THEN a ELSE b

Max(a, b) == IF a < b THEN b ELSE a

\* How far the two rectangles reach into each other along each axis
\* (negative when they are apart).
PenetrationX(a, b) == Min(a.x.c + a.width.c, b.x.c + b.width.c) - Max(a.x.c, b.x.c)

PenetrationY(a, b) == Min(a.y.c + a.height.c, b.y.c + b.height.c) - Max(a.y.c, b.y.c)

\* On both axes the far edge of each rectangle lies more than the tolerance
\* beyond the near edge of the other.
FarEdgesBeyondNearEdges(a, b) ==
    /\ a.x.c + a.width.c > b.x.c + ToleranceCm
    /\ b.x.c + b.width.c > a.x.c + ToleranceCm
    /\ a.y.c + a.height.c > b.y.c + ToleranceCm
    /\ b.y.c + b.height.c > a.y.c + ToleranceCm

\* The rectangle is more than the tolerance wide and high.
WiderThanTolerance(a) == a.width.c > ToleranceCm /\ a.height.c > ToleranceCm

CarriesSkippedId(block) == block.id = excludeId \/ block.id = targetBlock.id

\* The brute-force check: blocksOverlap applied to every block that is not
\* skipped, without any rejection.
BruteForceCollision ==
    \E i \in 1..Len(allBlocks) :
        ~CarriesSkippedId(allBlocks[i]) /\ blocksOverlap(targetBlock, allBlocks[i])

\* The block lies wholly more than the margin away from the target on an axis.
BeyondMargin(block) ==
    \/ block.x.c > targetBlock.x.c + targetBlock.width.c + MarginCm
    \/ block.x.c + block.width.c < targetBlock.x.c - MarginCm
    \/ block.y.c > targetBlock.y.c + targetBlock.height.c + MarginCm
    \/ block.y.c + block.height.c < targetBlock.y.c - MarginCm

\* C18: when no block is wider or higher than the 10 m margin,
\* checkCollisionOptimized returns what the brute-force check returns.
C18_SameAsBruteForce ==
    (/\ pc = "checkCollisionOptimized"
     /\ \A i \in 1..Len(allBlocks) :
           allBlocks[i].width.c <= MarginCm /\ allBlocks[i].height.c <= MarginCm)
        => returned = BruteForceCollision

\* A collision is found in a list that also holds a block beyond the margin,
\* which is not skipped.
C18_Witness ==
    /\ pc = "checkCollisionOptimized"
    /\ returned
    /\ \E i \in 1..Len(allBlocks) :
          ~CarriesSkippedId(allBlocks[i]) /\ BeyondMargin(allBlocks[i])

\* The list without the blocks that carry excludeId or the target's id.
OtherBlocks == SelectSeq(allBlocks, LAMBDA b : ~CarriesSkippedId(b))

\* C19: checkCollisionOptimized is true iff some block whose id differs from
\* excludeId and from the target's id overlaps the target; the blocks that
\* carry either id make no difference to the result.
C19_OnlyOtherIdsCollide ==
    pc = "checkCollisionOptimized" =>
        /\ returned = \E i \in 1..Len(allBlocks) :
                          /\ allBlocks[i].id # excludeId
                          /\ allBlocks[i].id # targetBlock.id
                          /\ FarEdgesBeyondNearEdges(targetBlock, allBlocks[i])
        /\ checkCollisionOptimized(targetBlock, OtherBlocks, undefined) = returned

\* The list holds the target where it was before and an excluded block, both
\* over the target, and no collision is reported.
C19_Witness ==
    /\ pc = "checkCollisionOptimized"
    /\ ~returned
    /\ excludeId # undefined
    /\ \E i \in 1..Len(allBlocks) : \E j \in 1..Len(allBlocks) :
          /\ allBlocks[i].id = targetBlock.id
          /\ allBlocks[j].id = excludeId
          /\ allBlocks[j].id # targetBlock.id
          /\ FarEdgesBeyondNearEdges(targetBlock, allBlocks[i])
          /\ FarEdgesBeyondNearEdges(targetBlock, allBlocks[j])

\* The ids of the list are pairwise distinct.
DistinctIds == \A i \in 1..Len(allBlocks) : \A j \in 1..Len(allBlocks) :
                  allBlocks[i].id = allBlocks[j].id => i = j

\* The lists with the blocks of allBlocks in another order.
Reorderings ==
    { [i \in 1..Len(allBlocks) |-> allBlocks[f[i]]] :
        f \in { f \in [1..Len(allBlocks) -> 1..Len(allBlocks)] :
                  \A i \in 1..Len(allBlocks) : \E j \in 1..Len(allBlocks) : f[j] = i } }

\* C20: for a list with pairwise distinct ids, a block's id is in the set
\* findOverlappingBlocks returns iff the block overlaps at least one other
\* block of the list; the set is empty iff no pair overlaps, never has exactly
\* one element, and is the same for every order of the list.
C20_OverlappingIds ==
    (pc = "findOverlappingBlocks" /\ DistinctIds) =>
        /\ \A i \in 1..Len(allBlocks) :
              (allBlocks[i].id \in returned)
                 <=> \E j \in 1..Len(allBlocks) :
                        j # i /\ FarEdgesBeyondNearEdges(allBlocks[i], allBlocks[j])
        /\ returned \subseteq { allBlocks[i].id : i \in 1..Len(allBlocks) }
        /\ (returned = {})
              <=> \A i \in 1..Len(allBlocks) : \A j \in 1..Len(allBlocks) :
                     i # j => ~FarEdgesBeyondNearEdges(allBlocks[i], allBlocks[j])
        /\ Cardinality(returned) # 1
        /\ \A other \in Reorderings : findOverlappingBlocks(other) = returned

\* A list of distinct ids, as long as the lists explored get, in which two
\* blocks overlap.
C20_Witness ==
    /\ pc = "findOverlappingBlocks"
    /\ DistinctIds
    /\ Len(allBlocks) = MaxBlocks
    /\ Cardinality(returned) = 2

----------------------------------------------------------------------------
(* getOverlapArea.                                                          *)

\* The rectangle where the two rectangles meet, in centimetres.
Intersection(a, b) ==
    [x |-> Max(a.x.c, b.x.c), y |-> Max(a.y.c, b.y.c),
     width |-> PenetrationX(a, b), height |-> PenetrationY(a, b)]

\* The rectangle r lies within the block a, in centimetres.
ContainedIn(r, a) ==
    /\ a.x.c <= r.x /\ r.x + r.width <= a.x.c + a.width.c
    /\ a.y.c <= r.y /\ r.y + r.height <= a.y.c + a.height.c

\* The rectangle returned, in centimetres.
ReturnedRectangle ==
    [x |-> returned.x.c, y |-> returned.y.c,
     width |-> returned.width.c, height |-> returned.height.c]

----------------------------------------------------------------------------
(* validateBlockPlacement.                                                  *)

MinimumSizeCm == 10

\* Some block of the list that is neither excluded nor the target itself
\* overlaps the target.
CollidesWithObstacle ==
    \E i \in 1..Len(allBlocks) :
        ~CarriesSkippedId(allBlocks[i]) /\ FarEdgesBeyondNearEdges(targetBlock, allBlocks[i])

\* Both dimensions of the target are at least 0.1 m.
LargeEnough ==
    targetBlock.width.c >= MinimumSizeCm /\ targetBlock.height.c >= MinimumSizeCm

\* C22: validateBlockPlacement returns valid exactly when the target collides
\* with no obstacle that is not excluded and both of its dimensions are at
\* least 0.1 m; every invalid result carries a reason and every valid result
\* carries none; when both checks fail the collision reason is reported.
C22_ValidIffFreeAndLargeEnough ==
    pc = "validateBlockPlacement" =>
        /\ returned.isValid = (~CollidesWithObstacle /\ LargeEnough)
        /\ returned.isValid <=> returned.reason = undefined
        /\ ~returned.isValid => returned.reason \in {REASON_OVERLAP, REASON_SIZE}
        /\ CollidesWithObstacle => returned.reason = REASON_OVERLAP
        /\ (~CollidesWithObstacle /\ ~LargeEnough) => returned.reason = REASON_SIZE

\* A target below the minimum size that collides: the collision is reported.
C22_Witness ==
    /\ pc = "validateBlockPlacement"
    /\ CollidesWithObstacle
    /\ ~LargeEnough
    /\ returned = Validation(FALSE, REASON_OVERLAP)

----------------------------------------------------------------------------
(* The layout editor.                                                       *)

\* blocksOverlap is false for every pair of blocks of the list.
NoTwoOverlap(list) ==
    \A i \in 1..Len(list) : \A j \in 1..Len(list) :
        i # j => ~blocksOverlap(list[i], list[j])

\* The block lists the handlers propose in the current state, before any
\* collision check: a block dropped, a block dragged, resized, the selected
\* block rotated by a quarter turn, the selected block deleted.
Dropped ==
    { Append(storeBlocks,
             EditorBlock(generateId(idsGenerated),
                         snapToGrid(worldPos.x), snapToGrid(worldPos.y),
                         BLOCK_CONFIGS[type].width, BLOCK_CONFIGS[type].height, type, 0)) :
        worldPos \in DropPoints, type \in DropTypes }

Dragged ==
    { [storeBlocks EXCEPT ![i].x = to.x, ![i].y = to.y] :
        i \in 1..Len(storeBlocks), to \in DragPoints }

Resized ==
    { [storeBlocks EXCEPT ![i].width = size.width, ![i].height = size.height] :
        i \in 1..Len(storeBlocks), size \in Sizes }

Turned ==
    { [storeBlocks EXCEPT ![i] = Rotated(storeBlocks[i])] :
        i \in { i \in 1..Len(storeBlocks) : storeBlocks[i].id = selectedBlockId } }

Deleted ==
    { SelectSeq(storeBlocks, LAMBDA block : block.id # selectedBlockId) }

Proposed == Dropped \cup Dragged \cup Resized \cup Turned \cup Deleted

\* C23: from an empty layout, with overlap mode disabled throughout, no two
\* blocks of the layout overlap after any sequence of addBlock,
\* updateBlockPosition, updateBlockSize, rotateSelectedBlock and
\* deleteSelected; a handler leaves the list unchanged or makes it the list it
\* proposes, and never a proposed list in which two blocks overlap.
C23_NoTwoBlocksOverlap ==
    /\ [](~allowOverlap /\ NoTwoOverlap(storeBlocks))
    /\ [][ \/ storeBlocks' = storeBlocks
           \/ storeBlocks' \in { list \in Proposed : NoTwoOverlap(list) } ]_vars

\* Two blocks 1 cm into each other, one of them turned: the layout has taken
\* a drop, a drag and a rotation, and a drop on either block is refused.
C23_Witness ==
    /\ pc = "editor"
    /\ ~allowOverlap
    /\ Len(storeBlocks) = 2
    /\ \E i \in 1..2 : storeBlocks[i].rotation # 0
    /\ PenetrationX(storeBlocks[1], storeBlocks[2]) = ToleranceCm
    /\ PenetrationY(storeBlocks[1], storeBlocks[2]) > ToleranceCm
    /\ \A list \in Dropped : ~NoTwoOverlap(list)

\* C24 (as claimed): every rotateSelectedBlock that is applied advances the
\* selected block's rotation by 90 degrees modulo 360 and swaps its width and
\* height, and leaves every other block unchanged.
C24_QuarterTurnSwapsDimensions ==
    [][ (RotateSelectedBlock /\ storeBlocks' # storeBlocks) =>
          /\ Len(storeBlocks') = Len(storeBlocks)
          /\ \A i \in 1..Len(storeBlocks) :
                IF storeBlocks[i].id = selectedBlockId
                THEN /\ storeBlocks'[i].rotation = (storeBlocks[i].rotation + 90) % 360
                     /\ storeBlocks'[i].width = storeBlocks[i].height
                     /\ storeBlocks'[i].height = storeBlocks[i].width
                     /\ storeBlocks'[i].x = storeBlocks[i].x
                     /\ storeBlocks'[i].y = storeBlocks[i].y
                     /\ storeBlocks'[i].id = storeBlocks[i].id
                ELSE storeBlocks'[i] = storeBlocks[i] ]_vars

\* The ids of the blocks of the layout that overlap another block of it.
OverlappingIds ==
    { storeBlocks[i].id :
        i \in { i \in 1..Len(storeBlocks) :
                  \E j \in 1..Len(storeBlocks) :
                      j # i /\ FarEdgesBeyondNearEdges(storeBlocks[i], storeBlocks[j]) } }

\* C25 (as claimed): whenever overlap mode is enabled, overlappingBlocks is the
\* set findOverlappingBlocks gives for the current block list: the ids of the
\* blocks that overlap another block.
C25_OverlappingBlocksUpToDate ==
    allowOverlap => overlappingBlocks = OverlappingIds

----------------------------------------------------------------------------
(* The state of the search.                                                 *)

\* The number of parent references from the node to the node without parent.
RECURSIVE StepsToRoot(_)
StepsToRoot(id) == IF nodes[id].parent = 0 THEN 0 ELSE 1 + StepsToRoot(nodes[id].parent)

\* The node without parent the parent references of the node lead to.
RECURSIVE RootOf(_)
RootOf(id) == IF nodes[id].parent = 0 THEN id ELSE RootOf(nodes[id].parent)

\* At most one open node per grid cell.
OneOpenNodePerCell ==
    \A i \in 1..Len(openSet) : \A j \in 1..Len(openSet) :
        CellOf(openSet[i]) = CellOf(openSet[j]) => i = j

\* No open node in a cell of the closed set.
OpenCellsNotClosed == \A i \in 1..Len(openSet) : CellOf(openSet[i]) \notin ClosedCells

\* Every open node has f = g + h, h the Manhattan distance from its cell to
\* the snapped goal, and g the g-score recorded under its key.
OpenScoresConsistent ==
    \A i \in 1..Len(openSet) :
        LET n == nodes[openSet[i]]
        IN  /\ n.f.c = n.g.c + n.h.c
            /\ n.h.c = Abs(n.x.c - endSnapped.x.c) + Abs(n.y.c - endSnapped.y.c)
            /\ KeyOf(openSet[i]) \in DOMAIN gScore
            /\ gScore[KeyOf(openSet[i])] = n.g

\* The parent references of every node lead to the start node, in g / gridSize
\* steps.
ParentsLeadToStart ==
    \A id \in 1..Len(nodes) :
        /\ RootOf(id) = 1
        /\ Decimal(nodes[1]) = Decimal(startSnapped)
        /\ StepsToRoot(id) * GridCm = nodes[id].g.c

\* The g-score recorded under a key stays recorded and does not increase.
GScoreNeverIncreases ==
    \A k \in DOMAIN gScore : k \in DOMAIN gScore' /\ LessEq(gScore'[k], gScore[k])

\* C26 (as claimed): in every state of a search the open set holds at most one
\* node per grid cell, no cell is both open and closed, every open node has
\* f = g + h with h the Manhattan distance to the snapped goal and g the
\* g-score recorded for its cell, the parent references of every node lead to
\* the start node in g / gridSize steps, and no recorded g-score increases.
C26_SearchStateConsistent ==
    /\ [](/\ OneOpenNodePerCell
          /\ OpenCellsNotClosed
          /\ OpenScoresConsistent
          /\ ParentsLeadToStart)
    /\ [][GScoreNeverIncreases]_vars

\* The nodes expanded so far: for each closed key, the last node created
\* under it (no node is created under a key once it is closed).
ExpandedNodes ==
    { id \in 1..Len(nodes) :
        /\ KeyOf(id) \in closedSet
        /\ \A k \in (id + 1)..Len(nodes) : KeyOf(k) # KeyOf(id) }

\* The length in centimetres of a shortest 4-directional grid path from the
\* snapped start to the cell, outside every inflated obstacle.
ShortestDistance(cell) ==
    GridCm * ShortestSteps(SnappedStart, cell, MAX_PATHFINDING_ITERATIONS)

----------------------------------------------------------------------------
(* The broad phase of checkCollisionOptimized.                              *)

\* The block lies wholly more than m centimetres from the target on an axis.
BeyondMarginOf(block, m) ==
    \/ block.x.c > targetBlock.x.c + targetBlock.width.c + m
    \/ block.x.c + block.width.c < targetBlock.x.c - m
    \/ block.y.c > targetBlock.y.c + targetBlock.height.c + m
    \/ block.y.c + block.height.c < targetBlock.y.c - m

\* C28: for every target and list of blocks of non-negative width and height,
\* blocks larger than the margin included, and every non-negative margin,
\* checkCollisionOptimized returns what the brute-force check returns: a block
\* the bounding-box test rejects never overlaps the target.
C28_BroadPhaseNeverHidesOverlap ==
    pc = "checkCollisionWithMargin" =>
        /\ returned.hasCollision = BruteForceCollision
        /\ \A i \in 1..Len(allBlocks) :
              BeyondMarginOf(allBlocks[i], returned.margin.c)
                 => /\ ~FarEdgesBeyondNearEdges(targetBlock, allBlocks[i])
                    /\ ~blocksOverlap(targetBlock, allBlocks[i])

\* With a margin of half a metre, a block wider than 10 m around the target
\* collides, and another block is rejected by the bounding-box test.
C28_Witness ==
    /\ pc = "checkCollisionWithMargin"
    /\ returned.hasCollision
    /\ returned.margin.c < MarginCm
    /\ \E i \in 1..Len(allBlocks) : \E j \in 1..Len(allBlocks) :
          /\ allBlocks[i].width.c > MarginCm
          /\ ~CarriesSkippedId(allBlocks[i])
          /\ FarEdgesBeyondNearEdges(targetBlock, allBlocks[i])
          /\ ~CarriesSkippedId(allBlocks[j])
          /\ BeyondMarginOf(allBlocks[j], returned.margin.c)

----------------------------------------------------------------------------
\* C29: optimizePath is idempotent on every path findPath produces: applied to
\* the simplified path it returns that path.
C29_OptimizePathIdempotent ==
    (pc = "shown" /\ result.success) =>
        /\ optimizedPath = optimizePath(result.path)
        /\ optimizePath(optimizedPath) = optimizedPath

\* A path that lost waypoints and kept one between its ends: the second
\* simplification has a waypoint it could remove.
C29_Witness ==
    /\ pc = "shown"
    /\ result.success
    /\ Len(optimizedPath) < Len(result.path)
    /\ Len(optimizedPath) >= 4
    /\ \E i \in 2..(Len(optimizedPath) - 1) :
          Heading(optimizedPath[i - 1], optimizedPath[i])
             = Heading(optimizedPath[i], optimizedPath[i + 1])

\* The free cells reachable from the snapped start by grid steps, explored up
\* to a few cells more than the search can expand.
StartRegion == Region(SnappedStart, MAX_PATHFINDING_ITERATIONS + 3)

\* A 4-directional grid path joins the snapped start to the snapped end through
\* cells outside every inflated obstacle.
GridPathExists ==
    /\ ~InsideInflatedObstacle(SnappedStart)
    /\ SnappedEnd \in StartRegion

\* No such path exists: the start is blocked, or its whole region is known and
\* does not hold the snapped end.
NoGridPath ==
    \/ InsideInflatedObstacle(SnappedStart)
    \/ /\ Cardinality(StartRegion) < MAX_PATHFINDING_ITERATIONS + 3
       /\ SnappedEnd \notin StartRegion

\* C30: findPath returns the unreachable message only if no 4-directional grid
\* path joins the snapped start to the snapped end through cells outside all
\* inflated obstacles; whenever such a path exists, findPath returns success or
\* the timeout message.
C30_UnreachableOnlyWithoutPath ==
    Returned =>
        /\ result.message = MSG_UNREACHABLE => NoGridPath
        /\ GridPathExists => result.success \/ result.message = MSG_TIMEOUT

\* The search emptied the open set before the ceiling: the start is free, its
\* region is closed and does not hold the end.
C30_Witness ==
    /\ Returned
    /\ result.message = MSG_UNREACHABLE
    /\ ~InsideInflatedObstacle(SnappedStart)
    /\ NoGridPath
    /\ openSet = <<>>

\* A path exists and the search ran out of iterations before reaching the end.
PathExistsButTimeout ==
    /\ Returned
    /\ GridPathExists
    /\ result.message = MSG_TIMEOUT

====
